---- MODULE Spec2Model ----
(***************************************************************************)
(* GasChecker (src/app.py): per-chain RPC endpoint failover, level         *)
(* classification, cross-chain ranking and the payment gate of the         *)
(* premium routes.                                                         *)
(*                                                                         *)
(* Representation.                                                         *)
(*  - A Python str is a TLA+ string when it is only compared (chain ids,   *)
(*    URLs, header values); the text handed to int(_, 16) is a sequence   *)
(*    of one-character strings so that the decoding is computed.           *)
(*  - An f-string / message is the sequence of its fragments.              *)
(*  - A Python int (wei) is sign and magnitude, the magnitude in two       *)
(*    base-10^5 limbs: |wei| = hi * 10^5 + lo, 0 <= lo < 10^5.  One unit   *)
(*    of hi is 0.0001 gwei.                                                *)
(*  - The float round(wei / 1e9, 4) is the integer number of 0.0001 gwei.  *)
(*  - A dict is a function / record; "k in d" is k \in DOMAIN d.           *)
(*  - An Optional is [some |-> FALSE] or [some |-> TRUE, v |-> value].     *)
(***************************************************************************)
EXTENDS Integers, Sequences, FiniteSets, TLC

(***************************************************************************)
(* Configuration (src/app.py:19-67)                                        *)
(***************************************************************************)
RECIPIENT_WALLET == "0xaab80bc6b6040ae845ce225181fd72297ba71b13"

NETWORK == "base"

PRICING ==
  [premium_all |-> "0.001", premium_recommend |-> "0.0005"]

CHAINS ==
  [ethereum |-> [name |-> "Ethereum",
                 rpcs |-> <<"https://ethereum.publicnode.com",
                            "https://eth.drpc.org",
                            "https://1rpc.io/eth">>],
   base     |-> [name |-> "Base",
                 rpcs |-> <<"https://base.publicnode.com",
                            "https://base.drpc.org",
                            "https://1rpc.io/base">>],
   arbitrum |-> [name |-> "Arbitrum One",
                 rpcs |-> <<"https://arbitrum-one.publicnode.com",
                            "https://arb1.arbitrum.io/rpc">>],
   optimism |-> [name |-> "Optimism",
                 rpcs |-> <<"https://optimism.publicnode.com",
                            "https://mainnet.optimism.io">>],
   polygon  |-> [name |-> "Polygon",
                 rpcs |-> <<"https://polygon-bor.publicnode.com",
                            "https://polygon-rpc.com">>]]

\* Iteration order of "for chain in CHAINS" (dict insertion order).
ChainOrder == <<"ethereum", "base", "arbitrum", "optimism", "polygon">>

ChainIds == DOMAIN CHAINS

URLs == UNION { { CHAINS[c].rpcs[i] : i \in 1..Len(CHAINS[c].rpcs) } : c \in ChainIds }

(***************************************************************************)
(* Python helpers                                                          *)
(***************************************************************************)
None == [some |-> FALSE]

Some(v) == [some |-> TRUE, v |-> v]

\* str.lower() on the chain arguments the requests draw from.
Lower(s) ==
  CASE s = "ETHEREUM" -> "ethereum"
    [] s = "Base"     -> "base"
    [] OTHER          -> s

\* json.dumps(value): JSON text carrying the value; Loads is json.loads.
Dumps(v) == [json_text |-> v]

Loads(t) == t.json_text

Limb == 100000

HexDigitValue ==
  [ch \in {"0","1","2","3","4","5","6","7","8","9",
           "a","b","c","d","e","f","A","B","C","D","E","F"} |->
     CASE ch = "0" -> 0  [] ch = "1" -> 1  [] ch = "2" -> 2  [] ch = "3" -> 3
       [] ch = "4" -> 4  [] ch = "5" -> 5  [] ch = "6" -> 6  [] ch = "7" -> 7
       [] ch = "8" -> 8  [] ch = "9" -> 9
       [] ch \in {"a","A"} -> 10 [] ch \in {"b","B"} -> 11
       [] ch \in {"c","C"} -> 12 [] ch \in {"d","D"} -> 13
       [] ch \in {"e","E"} -> 14 [] ch \in {"f","F"} -> 15]

\* acc * 16 + digit, digit by digit, on the two-limb magnitude.
RECURSIVE HexMagnitude(_, _, _)
HexMagnitude(digits, k, acc) ==
  IF k > Len(digits) THEN acc
  ELSE LET lo2 == acc.lo * 16 + HexDigitValue[digits[k]]
       IN  HexMagnitude(digits, k + 1,
                        [hi |-> acc.hi * 16 + (lo2 \div Limb), lo |-> lo2 % Limb])

\* The decoded int: -0 is 0.
Decoded(minus, mag) ==
  [ok  |-> TRUE,
   wei |-> [neg |-> minus /\ (mag.hi # 0 \/ mag.lo # 0), hi |-> mag.hi, lo |-> mag.lo]]

\* At least one digit, hex digits only, else ValueError.
ParseDigits(minus, digits) ==
  IF /\ Len(digits) > 0
     /\ \A k \in 1..Len(digits) : digits[k] \in DOMAIN HexDigitValue
  THEN Decoded(minus, HexMagnitude(digits, 1, [hi |-> 0, lo |-> 0]))
  ELSE [ok |-> FALSE]

\* Optional 0x / 0X prefix.
ParsePrefix(minus, s) ==
  ParseDigits(minus,
              IF Len(s) >= 2 /\ s[1] = "0" /\ s[2] \in {"x", "X"}
              THEN SubSeq(s, 3, Len(s)) ELSE s)

\* Optional sign.
ParseSign(s) ==
  ParsePrefix(Len(s) > 0 /\ s[1] = "-",
              IF Len(s) > 0 /\ s[1] \in {"+", "-"} THEN Tail(s) ELSE s)

\* int(text, 16): optional sign, optional 0x / 0X prefix, at least one hex
\* digit; anything else raises ValueError, a non-str raises TypeError.
IntBase16(value) ==
  IF value.type # "str" THEN [ok |-> FALSE] ELSE ParseSign(value.chars)

\* The if / elif chain on gwei = wei / 1e9 (unrounded):
\* wei / 1e9 < 5 exactly when wei < 5 * 10^9, i.e. hi < 50000.
LevelOf(wei) ==
  IF wei.neg \/ wei.hi < 50000 THEN "low"
  ELSE IF wei.hi < 200000 THEN "medium"
  ELSE IF wei.hi < 500000 THEN "high"
  ELSE "extreme"

\* round(wei / 1e9, 4) in units of 0.0001 gwei (to nearest; the request
\* inputs contain no value with lo = 50000, where the double decides).
RoundGwei(wei) ==
  LET m == wei.hi + (IF wei.lo >= 50000 THEN 1 ELSE 0)
  IN  IF wei.neg THEN 0 - m ELSE m

(***************************************************************************)
(* fetch_gas_price (src/app.py:75-126)                                     *)
(*                                                                         *)
(* net maps every endpoint URL to what it answers during the request.     *)
(* The operators return the dict together with the endpoints contacted,   *)
(* in order.                                                               *)
(***************************************************************************)
\* Mutant: the reading also carries an (empty) "error" key.
ReadingWithErrorKey(chain, wei) ==
  [chain    |-> chain,
   name     |-> CHAINS[chain].name,
   gasPrice |-> [wei |-> wei, gwei |-> RoundGwei(wei)],
   level    |-> LevelOf(wei),
   error    |-> <<>>]

\* Lines 102-121: the reading built from the decoded wei.
Reading(chain, wei) ==
  [chain    |-> chain,
   name     |-> CHAINS[chain].name,
   gasPrice |-> [wei |-> wei, gwei |-> RoundGwei(wei)],
   level    |-> LevelOf(wei)]

\* Mutant: the except clause catches network errors only, the ValueError /
\* TypeError of int(_, 16) leaves fetch_gas_price.
AfterDecodeRaises(chain, dec) ==
  IF dec.ok THEN [returned |-> TRUE, value |-> Reading(chain, dec.wei)]
  ELSE [returned |-> TRUE, value |-> [raised |-> "ValueError"]]

\* Line 101 raised (caught at line 123), or lines 102-121 returned.
AfterDecode(chain, dec) ==
  IF dec.ok THEN [returned |-> TRUE, value |-> Reading(chain, dec.wei)]
  ELSE [returned |-> FALSE]

\* Mutant: a body without "result" ends the fetch with a failure instead of
\* falling through to the next endpoint.
TryRpcGivesUp(chain, rpc, net) ==
  IF net[rpc].kind # "json" THEN [returned |-> FALSE]
  ELSE IF "result" \notin DOMAIN net[rpc].data
  THEN [returned |-> TRUE,
        value |-> [chain |-> chain, error |-> <<"All RPCs failed">>]]
  ELSE AfterDecode(chain, IntBase16(net[rpc].data.result))

\* One iteration of the loop body: returned = TRUE is the return at line
\* 113, FALSE is falling through line 100 or the except/continue.
TryRpc(chain, rpc, net) ==
  IF net[rpc].kind # "json" THEN [returned |-> FALSE]
  ELSE IF "result" \notin DOMAIN net[rpc].data THEN [returned |-> FALSE]
  ELSE AfterDecode(chain, IntBase16(net[rpc].data.result))

\* The endpoint rpc was contacted before what rest reports.
Contacted(rpc, rest) ==
  [result |-> rest.result, attempts |-> <<rpc>> \o rest.attempts]

AllFailed(chain) ==
  [result |-> [chain |-> chain, error |-> <<"All RPCs failed">>], attempts |-> <<>>]

\* Mutant: the loop keeps contacting the remaining endpoints after a success.
RECURSIVE FetchFromContactsAll(_, _, _)
ContactsAllAfterTry(chain, i, net, t) ==
  IF t.returned
  THEN [result   |-> t.value,
        attempts |-> <<CHAINS[chain].rpcs[i]>>
                       \o FetchFromContactsAll(chain, i + 1, net).attempts]
  ELSE Contacted(CHAINS[chain].rpcs[i], FetchFromContactsAll(chain, i + 1, net))

FetchFromContactsAll(chain, i, net) ==
  IF i > Len(CHAINS[chain].rpcs) THEN AllFailed(chain)
  ELSE ContactsAllAfterTry(chain, i, net, TryRpc(chain, CHAINS[chain].rpcs[i], net))

\* The loop "for rpc in config['rpcs']" from its i-th endpoint on.
RECURSIVE FetchFrom(_, _, _)
AfterTry(chain, i, net, t) ==
  IF t.returned
  THEN [result |-> t.value, attempts |-> <<CHAINS[chain].rpcs[i]>>]
  ELSE Contacted(CHAINS[chain].rpcs[i], FetchFrom(chain, i + 1, net))

FetchFrom(chain, i, net) ==
  IF i > Len(CHAINS[chain].rpcs) THEN AllFailed(chain)
  ELSE AfterTry(chain, i, net, TryRpc(chain, CHAINS[chain].rpcs[i], net))

\* Mutant: an unknown chain falls back to the default chain.
fetch_gas_price_DefaultChain(chain, net) ==
  FetchFrom(IF chain \in DOMAIN CHAINS THEN chain ELSE "ethereum", 1, net)

fetch_gas_price(chain, net) ==
  IF chain \notin DOMAIN CHAINS
  THEN [result |-> [error |-> <<"Unknown chain: ", chain>>], attempts |-> <<>>]
  ELSE FetchFrom(chain, 1, net)


\* prices.sort(key=lambda x: x["gwei"]): a stable ascending sort.  Each
\* element goes behind every element already placed whose key is <= its own.
\* Mutant: an unstable sort, equal keys end up in reverse order.
InsertByGweiUnstable(sorted, e) ==
  LET pos == Cardinality({ i \in 1..Len(sorted) : sorted[i].gwei < e.gwei })
  IN  SubSeq(sorted, 1, pos) \o <<e>> \o SubSeq(sorted, pos + 1, Len(sorted))

InsertByGwei(sorted, e) ==
  LET pos == Cardinality({ i \in 1..Len(sorted) : sorted[i].gwei <= e.gwei })
  IN  SubSeq(sorted, 1, pos) \o <<e>> \o SubSeq(sorted, pos + 1, Len(sorted))

RECURSIVE SortByGwei(_)
SortByGwei(prices) ==
  IF prices = <<>> THEN <<>>
  ELSE InsertByGwei(SortByGwei(SubSeq(prices, 1, Len(prices) - 1)),
                    prices[Len(prices)])

EmptyDict == [k \in {} |-> k]

\* d[key] = value
DictSet(d, key, value) ==
  [k \in DOMAIN d \cup {key} |-> IF k = key THEN value ELSE d[k]]

\* Accumulator of a "for chain in CHAINS" loop: the local (results dict or
\* prices list), the endpoints contacted and the fetcher invocations so far.
LoopStart(local) == [local |-> local, attempts |-> <<>>, calls |-> <<>>]

\* results[chain] = fetch_gas_price(chain), f what the fetcher returned.
StoreResult(acc, chain, f) ==
  [local    |-> DictSet(acc.local, chain, f.result),
   attempts |-> acc.attempts \o f.attempts,
   calls    |-> Append(acc.calls, [chain |-> chain, ret |-> f.result])]

\* if "gasPrice" in result: prices.append({...})
AppendPrice(acc, chain, f) ==
  [local    |-> IF "gasPrice" \in DOMAIN f.result
                THEN Append(acc.local, [chain |-> chain,
                                        name  |-> f.result.name,
                                        gwei  |-> f.result.gasPrice.gwei])
                ELSE acc.local,
   attempts |-> acc.attempts \o f.attempts,
   calls    |-> Append(acc.calls, [chain |-> chain, ret |-> f.result])]

\* A single fetcher invocation serving a request.
SingleCall(chain, f, resp) ==
  [resp     |-> resp,
   attempts |-> f.attempts,
   calls    |-> <<[chain |-> chain, ret |-> f.result]>>]

\* The handler returned resp after the loop ended in done.
AfterLoop(done, resp) ==
  [resp |-> resp, attempts |-> done.attempts, calls |-> done.calls]

\* The handler returned resp without fetching.
NoFetch(resp) == [resp |-> resp, attempts |-> <<>>, calls |-> <<>>]

\* f"{prices[0]['name']} has lowest gas at {prices[0]['gwei']} gwei"
Reason(first) == <<first.name, " has lowest gas at ", first.gwei, " gwei">>

(***************************************************************************)
(* MCP tools (src/app.py:129-170)                                          *)
(***************************************************************************)
ToolText(text) == [kind |-> "tool", text |-> text]

GasReturn(chain, f) == SingleCall(chain, f, ToolText(Dumps(f.result)))

gas(chain, net) == GasReturn(Lower(chain), fetch_gas_price(Lower(chain), net))

\* Mutant: the loop stops at the first chain whose fetch failed.
RECURSIVE gas_all_loop_AbortsOnFailure(_, _, _)
AbortsOnFailureStep(k, net, acc2) ==
  IF "error" \in DOMAIN acc2.calls[Len(acc2.calls)].ret THEN acc2
  ELSE gas_all_loop_AbortsOnFailure(k + 1, net, acc2)

gas_all_loop_AbortsOnFailure(k, net, acc) ==
  IF k > Len(ChainOrder) THEN acc
  ELSE AbortsOnFailureStep(k, net,
         StoreResult(acc, ChainOrder[k], fetch_gas_price(ChainOrder[k], net)))

RECURSIVE gas_all_loop(_, _, _)
gas_all_loop(k, net, acc) ==
  IF k > Len(ChainOrder) THEN acc
  ELSE gas_all_loop(k + 1, net,
         StoreResult(acc, ChainOrder[k], fetch_gas_price(ChainOrder[k], net)))

GasAllReturn(done) == AfterLoop(done, ToolText(Dumps(done.local)))

gas_all(net) == GasAllReturn(gas_all_loop(1, net, LoopStart(EmptyDict)))

RECURSIVE gas_recommend_loop(_, _, _)
gas_recommend_loop(k, net, acc) ==
  IF k > Len(ChainOrder) THEN acc
  ELSE gas_recommend_loop(k + 1, net,
         AppendPrice(acc, ChainOrder[k], fetch_gas_price(ChainOrder[k], net)))

\* Lines 159-165, prices already sorted.
Recommendation(prices) ==
  [recommendation |-> prices[1].chain,
   reason         |-> Reason(prices[1]),
   ranking        |-> prices]

\* Lines 156-165.
GasRecommendReturn(done) ==
  AfterLoop(done,
            IF done.local = <<>>
            THEN ToolText(Dumps([error |-> <<"Could not fetch gas prices">>]))
            ELSE ToolText(Dumps(Recommendation(SortByGwei(done.local)))))

gas_recommend(net) ==
  GasRecommendReturn(gas_recommend_loop(1, net, LoopStart(<<>>)))

chains == NoFetch(ToolText(Dumps(ChainOrder)))

(***************************************************************************)
(* REST routes (src/app.py:208-299)                                        *)
(***************************************************************************)
Http(status, body) == [kind |-> "http", status |-> status, body |-> body]

\* raise HTTPException(status_code, detail)
HTTPException(status, detail) == Http(status, [detail |-> detail])

list_chains == NoFetch(Http(200, [chains |-> ChainOrder]))

\* Lines 216-218.
GetGasReturn(chain, f) ==
  SingleCall(chain, f,
             IF "error" \in DOMAIN f.result
             THEN HTTPException(400, f.result.error)
             ELSE Http(200, f.result))

get_gas(chain, net) == GetGasReturn(Lower(chain), fetch_gas_price(Lower(chain), net))

\* request.headers.get(name)
HeaderGet(headers, name) ==
  IF name \in DOMAIN headers THEN Some(headers[name]) ELSE None

Truthy(opt) == opt.some /\ opt.v # ""

\* Mutant: only the X-PAYMENT header is read.
payment_header_XPaymentOnly(headers) == HeaderGet(headers, "X-PAYMENT")

\* request.headers.get("X-PAYMENT") or request.headers.get("Payment")
payment_header(headers) ==
  IF Truthy(HeaderGet(headers, "X-PAYMENT"))
  THEN HeaderGet(headers, "X-PAYMENT")
  ELSE HeaderGet(headers, "Payment")

\* JSONResponse(status_code=402, content=..., headers=...)
PaymentRequired(tier, description) ==
  [kind    |-> "http",
   status  |-> 402,
   body    |-> [error       |-> <<"Payment required">>,
                price       |-> PRICING[tier],
                currency    |-> "USDC",
                network     |-> NETWORK,
                recipient   |-> RECIPIENT_WALLET,
                description |-> description],
   headers |-> [XPaymentRequired |->
                  Dumps([price     |-> PRICING[tier],
                         currency  |-> "USDC",
                         network   |-> NETWORK,
                         recipient |-> RECIPIENT_WALLET])]]

RECURSIVE premium_all_loop(_, _, _)
premium_all_loop(k, net, acc) ==
  IF k > Len(ChainOrder) THEN acc
  ELSE premium_all_loop(k + 1, net,
         StoreResult(acc, ChainOrder[k], fetch_gas_price(ChainOrder[k], net)))

PremiumAllReturn(done) ==
  AfterLoop(done, Http(200, [paid |-> TRUE, data |-> done.local]))

premium_all(headers, net) ==
  IF ~Truthy(payment_header(headers))
  THEN NoFetch(PaymentRequired("premium_all", "All chains gas prices"))
  ELSE PremiumAllReturn(premium_all_loop(1, net, LoopStart(EmptyDict)))

RECURSIVE premium_recommend_loop(_, _, _)
premium_recommend_loop(k, net, acc) ==
  IF k > Len(ChainOrder) THEN acc
  ELSE premium_recommend_loop(k + 1, net,
         AppendPrice(acc, ChainOrder[k], fetch_gas_price(ChainOrder[k], net)))

\* Lines 294-299, prices already sorted.
PaidRecommendation(prices) ==
  [paid           |-> TRUE,
   recommendation |-> IF prices # <<>> THEN Some(prices[1].chain) ELSE None,
   reason         |-> IF prices # <<>> THEN Reason(prices[1]) ELSE <<"No data">>,
   ranking        |-> prices]

\* Lines 292-299.
PremiumRecommendReturn(done) ==
  AfterLoop(done, Http(200, PaidRecommendation(SortByGwei(done.local))))

premium_recommend(headers, net) ==
  IF ~Truthy(payment_header(headers))
  THEN NoFetch(PaymentRequired("premium_recommend", "Smart chain recommendation"))
  ELSE PremiumRecommendReturn(premium_recommend_loop(1, net, LoopStart(<<>>)))

(***************************************************************************)
(* What an endpoint can answer to the eth_gasPrice POST                    *)
(***************************************************************************)
Str(chars) == [type |-> "str", chars |-> chars]

Timeout == [kind |-> "timeout"]

ConnError == [kind |-> "conn_error"]

\* a body json.loads rejects
NotJson == [kind |-> "not_json"]

\* a JSON object without "result"
NoResult == [kind |-> "json", data |-> [error |-> "method not found"]]

\* {"result": null}
NullResult == [kind |-> "json", data |-> [result |-> [type |-> "null"]]]

Result(chars) == [kind |-> "json", data |-> [result |-> Str(chars)]]

Hex10Gwei == Result(<<"0","x","2","5","4","0","b","e","4","0","0">>)

Hex30Gwei == Result(<<"0","x","6","f","c","2","3","a","c","0","0">>)

\* 10.00001 gwei: reported as 10.0, like Hex10Gwei
Hex10GweiPlus == Result(<<"0","x","2","5","4","0","c","0","b","1","0">>)

SoftFailures ==
  { Timeout, ConnError, NotJson, NoResult, NullResult,
    Result(<<"0","x","z","z">>), Result(<<>>), Result(<<"0","x">>) }

FailoverOutcomes == SoftFailures \cup { Hex10Gwei, Hex30Gwei }

\* Results around the level thresholds: 0, 4.9999, 4.99999, 5, 19.9999,
\* 19.99996, 20, 21, 49.9999, 49.99996 and 50 gwei, in the spellings
\* int(_, 16) accepts, and a signed one.
LevelOutcomes ==
  { Result(<<"0","x","0">>),
    Result(<<"0","x","1","2","a","0","4","6","b","6","0">>),
    Result(<<"0","x","1","2","a","0","5","c","a","f","0">>),
    Result(<<"0","x","1","2","A","0","5","F","2","0","0">>),
    Result(<<"0","x","4","a","8","1","6","4","1","6","0">>),
    Result(<<"0","x","4","a","8","1","7","2","b","c","0">>),
    Result(<<"0","X","4","a","8","1","7","c","8","0","0">>),
    Result(<<"4","e","3","b","2","9","2","0","0">>),
    Result(<<"0","x","b","a","4","3","9","e","d","6","0">>),
    Result(<<"0","x","b","a","4","3","a","d","7","c","0">>),
    Result(<<"+","0","x","b","a","4","3","b","7","4","0","0">>),
    Result(<<"-","0","x","1">>) }

RankOutcomes == { Hex10Gwei, Hex30Gwei, Hex10GweiPlus }

(***************************************************************************)
(* Bounds                                                                  *)
(***************************************************************************)
\* In the ranking scenarios the chains that answer do so at one and the same
\* position of their endpoint lists, a position up to MaxDepth.
MaxDepth == 2

IndexOf(seq, x) == CHOOSE i \in 1..Len(seq) : seq[i] = x

ChainOf(url) ==
  CHOOSE c \in ChainIds : \E i \in 1..Len(CHAINS[c].rpcs) : CHAINS[c].rpcs[i] = url

\* One chain's endpoints answer anything, every other endpoint times out.
FailoverNets ==
  UNION { { [u \in URLs |-> IF ChainOf(u) = c
                            THEN f[IndexOf(CHAINS[c].rpcs, u)] ELSE Timeout]
            : f \in [1..Len(CHAINS[c].rpcs) -> FailoverOutcomes] }
          : c \in ChainIds }

\* One chain's first endpoint answers a threshold value.
LevelNets ==
  { [u \in URLs |-> IF u = CHAINS[c].rpcs[1] THEN o ELSE Timeout]
    : c \in ChainIds, o \in LevelOutcomes }

\* Every chain either times out or answers a ranking value, at its endpoint
\* number at; every other endpoint times out.
RankChoices == [ChainIds -> {Timeout} \cup RankOutcomes]

RankNets ==
  { [u \in URLs |-> IF IndexOf(CHAINS[ChainOf(u)].rpcs, u) = at
                    THEN p[ChainOf(u)] ELSE Timeout]
    : p \in RankChoices, at \in 1..MaxDepth }

Nets == FailoverNets \cup LevelNets \cup RankNets

ChainArgs == ChainIds \cup { "ETHEREUM", "Base", "solana", "" }

HeaderSets ==
  { EmptyDict,
    "X-PAYMENT" :> "",
    "X-PAYMENT" :> "proof",
    "Payment" :> "",
    "Payment" :> "proof",
    ("X-PAYMENT" :> "") @@ ("Payment" :> "proof") }

(***************************************************************************)
(* State: the endpoints' behaviour and one request/response cycle          *)
(***************************************************************************)
VARIABLES
  net,       \* URL -> what the endpoint answers
  pc,        \* "idle": no request in progress; "done": response produced
  req,       \* the request being served
  resp,      \* its response
  attempts,  \* endpoints contacted for it, in order
  calls,     \* fetch_gas_price invocations for it: [chain, ret], in order
  config,    \* the module-level tables as they are at run time
  warm       \* TRUE once a request has been served since start

vars == <<net, pc, req, resp, attempts, calls, config, warm>>

\* Lines 19-67: the module-level tables as the module body leaves them.
Globals ==
  [RECIPIENT_WALLET |-> RECIPIENT_WALLET,
   NETWORK          |-> NETWORK,
   PRICING          |-> PRICING,
   CHAINS           |-> CHAINS]

NoReq == [op |-> "none"]

NoResp == [kind |-> "none"]

Init ==
  /\ net \in Nets
  /\ pc = "idle"
  /\ req = NoReq
  /\ resp = NoResp
  /\ attempts = <<>>
  /\ calls = <<>>
  /\ config = Globals
  /\ warm = FALSE

\* Mutant: the handler moves the endpoint that was contacted last to the
\* front of its chain's list, for the next request to start with it.
ServeKeepsLastEndpoint(request, out) ==
  /\ pc = "idle"
  /\ pc' = "done"
  /\ req' = request
  /\ resp' = out.resp
  /\ attempts' = out.attempts
  /\ calls' = out.calls
  /\ config' =
       IF out.attempts = <<>> THEN config
       ELSE LET u == out.attempts[Len(out.attempts)]
                c == ChainOf(u)
            IN  [config EXCEPT !.CHAINS[c].rpcs =
                   <<u>> \o SelectSeq(@, LAMBDA v : v # u)]
  /\ UNCHANGED <<net, warm>>

\* The handler ran to completion and produced out.
Serve(request, out) ==
  /\ pc = "idle"
  /\ pc' = "done"
  /\ req' = request
  /\ resp' = out.resp
  /\ attempts' = out.attempts
  /\ calls' = out.calls
  /\ UNCHANGED <<net, config, warm>>

Gas(chain) == Serve([op |-> "gas", chain |-> chain], gas(chain, net))

GasAll == Serve([op |-> "gas_all"], gas_all(net))

GasRecommend == Serve([op |-> "gas_recommend"], gas_recommend(net))

Chains == Serve([op |-> "chains"], chains)

ListChains == Serve([op |-> "list_chains"], list_chains)

GetGas(chain) == Serve([op |-> "get_gas", chain |-> chain], get_gas(chain, net))

PremiumAll(headers) ==
  Serve([op |-> "premium_all", headers |-> headers], premium_all(headers, net))

PremiumRecommend(headers) ==
  Serve([op |-> "premium_recommend", headers |-> headers],
        premium_recommend(headers, net))

\* The response is delivered; nothing of the request is kept.
Finish ==
  /\ pc = "done"
  /\ pc' = "idle"
  /\ req' = NoReq
  /\ resp' = NoResp
  /\ attempts' = <<>>
  /\ calls' = <<>>
  /\ warm' = TRUE
  /\ UNCHANGED <<net, config>>

Next ==
  \/ \E chain \in ChainArgs : Gas(chain)
  \/ GasAll
  \/ GasRecommend
  \/ Chains
  \/ ListChains
  \/ \E chain \in ChainArgs : GetGas(chain)
  \/ \E headers \in HeaderSets : PremiumAll(headers)
  \/ \E headers \in HeaderSets : PremiumRecommend(headers)
  \/ Finish

Spec == Init /\ [][Next]_vars


(***************************************************************************)
(* Vocabulary of the properties                                            *)
(***************************************************************************)
Done == pc = "done"

Rpcs(c) == CHAINS[c].rpcs

\* The endpoint answers a body whose "result" int(_, 16) decodes.
Usable(out) ==
  /\ out.kind = "json"
  /\ "result" \in DOMAIN out.data
  /\ IntBase16(out.data.result).ok

\* Index of the first usable endpoint of chain c, 0 when there is none.
FirstUsable(c) ==
  LET S == { i \in 1..Len(Rpcs(c)) : Usable(net[Rpcs(c)[i]]) }
  IN  IF S = {} THEN 0 ELSE CHOOSE i \in S : \A j \in S : i <= j

\* The endpoints of chain c contacted during the request, in order.
AttemptsOn(c) == SelectSeq(attempts, LAMBDA u : ChainOf(u) = c)

IsReading(ret) == "gasPrice" \in DOMAIN ret

SingleFetch == Done /\ req.op \in {"gas", "get_gas"}

\* The fetcher invocations of the request that were for a known chain.
KnownCalls == { n \in 1..Len(calls) : calls[n].chain \in ChainIds }

\* Chains the request obtained a reading for.
Succeeded == { calls[n].chain : n \in { m \in 1..Len(calls) : IsReading(calls[m].ret) } }

RetOf(c) == calls[CHOOSE n \in 1..Len(calls) : calls[n].chain = c].ret

ConfigPos(c) == IndexOf(ChainOrder, c)

Proof(headers) ==
  \/ "X-PAYMENT" \in DOMAIN headers /\ headers["X-PAYMENT"] # ""
  \/ "Payment" \in DOMAIN headers /\ headers["Payment"] # ""

\* C1: for a known chain the endpoints are tried in configured order and the
\* fetch stops at the first usable one: when endpoint k is the first usable,
\* the endpoints contacted are exactly 1..k, each once, and the reading
\* carries the value endpoint k answered.
C1_FailoverStopsAtFirstSuccess ==
  Done =>
    \A n \in KnownCalls :
      LET c == calls[n].chain
          k == FirstUsable(c)
      IN  k # 0 =>
            /\ AttemptsOn(c) = SubSeq(Rpcs(c), 1, k)
            /\ IsReading(calls[n].ret)
            /\ calls[n].ret.gasPrice.wei = IntBase16(net[Rpcs(c)[k]].data.result).wei
            /\ (SingleFetch => attempts = SubSeq(Rpcs(c), 1, k))

\* Two endpoints fail in different ways, the third one answers, and the
\* single fetch contacted all three.
C1_Witness ==
  /\ SingleFetch
  /\ Len(calls) = 1 /\ calls[1].chain = "ethereum"
  /\ FirstUsable("ethereum") = 3
  /\ net[Rpcs("ethereum")[1]] = NotJson
  /\ net[Rpcs("ethereum")[2]] = NoResult
  /\ Len(attempts) = 3
  /\ IsReading(calls[1].ret)

\* C2: for a chain that is not configured the fetch returns the failure
\* "Unknown chain: <chain>" and contacts no endpoint, whatever the endpoints
\* would answer.
C2_UnknownChainNoAttempts ==
  (SingleFetch /\ Lower(req.chain) \notin ChainIds) =>
    /\ Len(calls) = 1
    /\ calls[1].ret = [error |-> <<"Unknown chain: ", Lower(req.chain)>>]
    /\ attempts = <<>>

C2_Witness ==
  /\ SingleFetch
  /\ req.chain = "solana"
  /\ \E c \in ChainIds : FirstUsable(c) = 1
  /\ attempts = <<>>

\* C3: for a known chain the fetch returns "All RPCs failed" exactly when no
\* endpoint is usable, and then every endpoint was contacted exactly once;
\* with a usable endpoint it returns a reading; never more attempts than
\* endpoints.
C3_AllFailedIffExhausted ==
  Done =>
    \A n \in KnownCalls :
      LET c == calls[n].chain
          k == FirstUsable(c)
      IN  /\ (calls[n].ret = [chain |-> c, error |-> <<"All RPCs failed">>]) <=> (k = 0)
          /\ (k = 0) => AttemptsOn(c) = Rpcs(c)
          /\ (k # 0) => IsReading(calls[n].ret)
          /\ Len(AttemptsOn(c)) <= Len(Rpcs(c))

\* Three endpoints fail in three different ways.
C3_Witness ==
  /\ SingleFetch
  /\ Len(calls) = 1 /\ calls[1].chain = "base"
  /\ net[Rpcs("base")[1]] = ConnError
  /\ net[Rpcs("base")[2]] = NullResult
  /\ net[Rpcs("base")[3]] = NoResult
  /\ calls[1].ret = [chain |-> "base", error |-> <<"All RPCs failed">>]
  /\ Len(attempts) = 3

BulkRead ==
  /\ Done
  /\ \/ req.op = "gas_all"
     \/ req.op = "premium_all" /\ resp.status = 200

BulkData == IF req.op = "gas_all" THEN Loads(resp.text) ELSE resp.body.data

\* The network in which every chain but c times out.
OnlyChainUp(c) == [u \in URLs |-> IF ChainOf(u) = c THEN net[u] ELSE Timeout]

\* C4: the bulk read invokes the fetcher exactly once per configured chain
\* and returns a mapping keyed by exactly the configured chains; the entry of
\* a chain is what the fetcher returned for it, and it is the entry the chain
\* gets when every other chain fails.
C4_BulkReadComplete ==
  BulkRead =>
    /\ DOMAIN BulkData = ChainIds
    /\ Len(calls) = Cardinality(ChainIds)
    /\ \A c \in ChainIds :
         /\ Cardinality({ n \in 1..Len(calls) : calls[n].chain = c }) = 1
         /\ BulkData[c] = RetOf(c)
         /\ BulkData[c] = fetch_gas_price(c, OnlyChainUp(c)).result

C4_Witness ==
  /\ BulkRead
  /\ IsReading(BulkData["polygon"])
  /\ ~IsReading(BulkData["ethereum"])
  /\ IsReading(BulkData["base"])

Recommend ==
  /\ Done
  /\ \/ req.op = "gas_recommend"
     \/ req.op = "premium_recommend" /\ resp.status = 200

RecommendBody == IF req.op = "gas_recommend" THEN Loads(resp.text) ELSE resp.body

RecommendedChain ==
  IF req.op = "gas_recommend" THEN RecommendBody.recommendation
  ELSE RecommendBody.recommendation.v

\* C5: with at least one successful chain, the ranking holds exactly the
\* successful chains, each once, ascending by reported gwei, equal values in
\* configuration order, and the recommendation is its first entry, a chain
\* of minimal gwei.
C5_RankingSortedStable ==
  (Recommend /\ Succeeded # {}) =>
    /\ "ranking" \in DOMAIN RecommendBody
    /\ LET ranking == RecommendBody.ranking
       IN  /\ Len(ranking) = Cardinality(Succeeded)
           /\ { ranking[i].chain : i \in 1..Len(ranking) } = Succeeded
           /\ \A i \in 1..Len(ranking) :
                /\ ranking[i].gwei = RetOf(ranking[i].chain).gasPrice.gwei
                /\ ranking[i].name = CHAINS[ranking[i].chain].name
           /\ \A i, j \in 1..Len(ranking) :
                i < j =>
                  \/ ranking[i].gwei < ranking[j].gwei
                  \/ /\ ranking[i].gwei = ranking[j].gwei
                     /\ ConfigPos(ranking[i].chain) < ConfigPos(ranking[j].chain)
           /\ RecommendedChain = ranking[1].chain
           /\ \A c \in Succeeded : ranking[1].gwei <= RetOf(c).gasPrice.gwei

\* Three chains ranked, two of them tied, and the sort moved a chain ahead
\* of one configured before it.
C5_Witness ==
  /\ Recommend
  /\ "ranking" \in DOMAIN RecommendBody
  /\ LET ranking == RecommendBody.ranking
     IN  /\ Len(ranking) >= 3
         /\ Cardinality(Succeeded) < Cardinality(ChainIds)
         /\ \E i, j \in 1..Len(ranking) : i < j /\ ranking[i].gwei = ranking[j].gwei
         /\ \E i, j \in 1..Len(ranking) :
              i < j /\ ConfigPos(ranking[i].chain) > ConfigPos(ranking[j].chain)


\* C6: every recommend entry point, when every configured chain fails,
\* returns a no-data error result and never a success-shaped response with
\* an empty ranking and a null recommendation.
C6_NoDataIsAnError ==
  (Recommend /\ Succeeded = {}) =>
    /\ "error" \in DOMAIN RecommendBody
    /\ "ranking" \notin DOMAIN RecommendBody
    /\ "recommendation" \notin DOMAIN RecommendBody

\* The threshold table on a reported gwei value (units of 0.0001 gwei).
Bucket(gwei) ==
  IF gwei < 0 THEN "none"
  ELSE IF gwei < 50000 THEN "low"
  ELSE IF gwei < 200000 THEN "medium"
  ELSE IF gwei < 500000 THEN "high"
  ELSE "extreme"

\* C7: in every reading the fetcher returns, the level is the bucket of the
\* reading's own reported gwei value, boundary values in the upper bucket.
C7_LevelMatchesReportedGwei ==
  Done =>
    \A n \in 1..Len(calls) :
      IsReading(calls[n].ret) =>
        calls[n].ret.level = Bucket(calls[n].ret.gasPrice.gwei)

Premium == Done /\ req.op \in {"premium_all", "premium_recommend"}

Authorized == resp.status = 200 /\ resp.body.paid

\* C8: a premium request is authorized exactly when it carries a non-empty
\* X-PAYMENT or Payment header; otherwise the response is payment-required
\* with the configured price of the tier, the currency, the network and the
\* recipient, and no chain is fetched and no endpoint contacted.
C8_PaymentGate ==
  Premium =>
    /\ Authorized <=> Proof(req.headers)
    /\ ~Proof(req.headers) =>
         /\ resp.status = 402
         /\ resp.body.price = PRICING[req.op]
         /\ resp.body.currency = "USDC"
         /\ resp.body.network = NETWORK
         /\ resp.body.recipient = RECIPIENT_WALLET
         /\ Loads(resp.headers.XPaymentRequired) =
              [price     |-> PRICING[req.op],
               currency  |-> "USDC",
               network   |-> NETWORK,
               recipient |-> RECIPIENT_WALLET]
         /\ attempts = <<>>
         /\ calls = <<>>

\* An empty X-PAYMENT header and no other proof, while an endpoint would
\* have answered.
C8_Witness ==
  /\ Premium
  /\ req.op = "premium_recommend"
  /\ req.headers = ("X-PAYMENT" :> "")
  /\ resp.status = 402
  /\ \E c \in ChainIds : FirstUsable(c) # 0

\* C9: an authorized premium request returns the payload of the free
\* operation on the same endpoint outcomes: premium_all the mapping of
\* gas_all, premium_recommend the recommendation, reason and ranking, or the
\* no-data result, of gas_recommend.
C9_PremiumSameAsFree ==
  (Premium /\ Authorized) =>
    IF req.op = "premium_all"
    THEN resp.body.data = Loads(gas_all(net).resp.text)
    ELSE LET free == Loads(gas_recommend(net).resp.text)
         IN  IF "error" \in DOMAIN free
             THEN /\ "error" \in DOMAIN resp.body
                  /\ resp.body.error = free.error
             ELSE /\ "recommendation" \in DOMAIN resp.body
                  /\ resp.body.recommendation = Some(free.recommendation)
                  /\ resp.body.reason = free.reason
                  /\ resp.body.ranking = free.ranking

\* An HTTP error status other than the gate's payment-required response.
ErrorStatus == resp.kind = "http" /\ resp.status >= 400 /\ resp.status # 402

\* C10: an error status is produced only for a recommendation without any
\* successful chain and for an unknown chain at the single-chain route; the
\* single-chain route asked for a known chain whose endpoints all fail
\* returns the failure as data, not as an error status.
C10_ErrorStatusOnlyNoDataOrUnknownChain ==
  Done =>
    /\ ErrorStatus =>
         \/ req.op \in {"gas_recommend", "premium_recommend"} /\ Succeeded = {}
         \/ req.op = "get_gas" /\ Lower(req.chain) \notin ChainIds
    /\ (req.op = "get_gas" /\ Lower(req.chain) \in ChainIds) =>
         /\ resp.status = 200
         /\ resp.body = calls[1].ret


\* C11: every value the fetcher returns is exactly one of a success (it has
\* gasPrice and level and no error) and a failure (it has error and no
\* gasPrice).
C11_SuccessXorFailure ==
  Done =>
    \A n \in 1..Len(calls) :
      LET ret     == calls[n].ret
          success == /\ {"gasPrice", "level"} \subseteq DOMAIN ret
                     /\ "error" \notin DOMAIN ret
          failure == /\ "error" \in DOMAIN ret
                     /\ "gasPrice" \notin DOMAIN ret
      IN  success # failure

\* One request obtained a reading for one chain and a failure for another.
C11_Witness ==
  /\ Done
  /\ \E n, m \in 1..Len(calls) :
       /\ IsReading(calls[n].ret)
       /\ "error" \in DOMAIN calls[m].ret

\* The five kinds of single-endpoint failure.
FailureKind(out) ==
  IF out.kind = "timeout" THEN "timeout"
  ELSE IF out.kind = "conn_error" THEN "connection error"
  ELSE IF out.kind = "not_json" THEN "not JSON"
  ELSE IF "result" \notin DOMAIN out.data THEN "no result"
  ELSE IF ~IntBase16(out.data.result).ok THEN "undecodable result"
  ELSE "none"

PositionIn(seq, x) ==
  IF \E i \in 1..Len(seq) : seq[i] = x THEN IndexOf(seq, x) ELSE 0

\* C12: a failure of any kind at an endpoint the fetch contacted is soft:
\* the fetcher returns a dict (nothing is raised), the next configured
\* endpoint, when there is one, is contacted right after it, and a usable
\* later endpoint still gives a reading.
C12_EveryFailureIsSoft ==
  Done =>
    \A n \in KnownCalls :
      LET c == calls[n].chain
      IN  /\ "raised" \notin DOMAIN calls[n].ret
          /\ \A i \in 1..Len(Rpcs(c)) :
               (PositionIn(attempts, Rpcs(c)[i]) # 0
                  /\ FailureKind(net[Rpcs(c)[i]]) # "none") =>
                 /\ i < Len(Rpcs(c)) =>
                      PositionIn(attempts, Rpcs(c)[i + 1])
                        = PositionIn(attempts, Rpcs(c)[i]) + 1
                 /\ (\E j \in (i + 1)..Len(Rpcs(c)) : Usable(net[Rpcs(c)[j]]))
                      => IsReading(calls[n].ret)

\* An undecodable result, then a timeout, then a usable answer.
C12_Witness ==
  /\ SingleFetch
  /\ Len(calls) = 1 /\ calls[1].chain = "base"
  /\ FailureKind(net[Rpcs("base")[1]]) = "undecodable result"
  /\ FailureKind(net[Rpcs("base")[2]]) = "timeout"
  /\ Usable(net[Rpcs("base")[3]])
  /\ IsReading(calls[1].ret)
  /\ Len(attempts) = 3

\* C13: every failure the fetcher returns carries the chain it was asked for
\* and the message, for an unknown chain as for a chain whose endpoints all
\* failed.
C13_FailureCarriesChain ==
  Done =>
    \A n \in 1..Len(calls) :
      "error" \in DOMAIN calls[n].ret =>
        /\ "chain" \in DOMAIN calls[n].ret
        /\ calls[n].ret.chain = calls[n].chain
        /\ calls[n].ret.error # <<>>

\* C14: the wei of every reading the fetcher returns is a non-negative
\* integer; a signed result never gives a reading.
C14_WeiIsUnsigned ==
  Done =>
    \A n \in 1..Len(calls) :
      IsReading(calls[n].ret) => ~calls[n].ret.gasPrice.wei.neg

\* The request is one that fetches every configured chain.
Aggregate ==
  Done /\ req.op \in {"gas_all", "gas_recommend", "premium_all", "premium_recommend"}

LastAttemptOn(c) == AttemptsOn(c)[Len(AttemptsOn(c))]

\* C15: in a request over all chains the fetches are issued concurrently:
\* the fetch of a later-configured chain starts (its first endpoint is
\* contacted) before the fetch of an earlier chain that needs a second
\* endpoint has finished, and the endpoints of one chain are contacted in
\* the configured order.
C15_FetchesIssuedConcurrently ==
  Aggregate =>
    \A c, d \in ChainIds :
      /\ AttemptsOn(c) = SubSeq(Rpcs(c), 1, Len(AttemptsOn(c)))
      /\ (ConfigPos(c) < ConfigPos(d)
            /\ Len(AttemptsOn(c)) >= 2
            /\ Len(AttemptsOn(d)) >= 1) =>
           PositionIn(attempts, AttemptsOn(d)[1])
             < PositionIn(attempts, LastAttemptOn(c))

\* What the handler of request r answers to the endpoint outcomes alone.
Handler(r) ==
  CASE r.op = "gas"               -> gas(r.chain, net)
    [] r.op = "gas_all"           -> gas_all(net)
    [] r.op = "gas_recommend"     -> gas_recommend(net)
    [] r.op = "chains"            -> chains
    [] r.op = "list_chains"       -> list_chains
    [] r.op = "get_gas"           -> get_gas(r.chain, net)
    [] r.op = "premium_all"       -> premium_all(r.headers, net)
    [] r.op = "premium_recommend" -> premium_recommend(r.headers, net)

SameAs(out) ==
  /\ resp = out.resp
  /\ attempts = out.attempts
  /\ calls = out.calls

====
